---- MODULE Spec2Model ----
(***************************************************************************)
(* Model of the soroban client: the Contract orchestrator (liveness        *)
(* queries, Install, Deploy, Restore, Invoke.Send, Invoke.RestoreAndSend), *)
(* the Transaction builder with Simulate and Send, and the completion      *)
(* poller.  Every RPC exchange is one step: the action that answers a      *)
(* pending call draws the response and runs the code up to the next RPC    *)
(* call or to the return of the operation.  SpecShared has two callers     *)
(* share a Contract and its client; SpecLife runs Install, Deploy and      *)
(* Invoke.Send against a server that keeps a ledger.                       *)
(***************************************************************************)
EXTENDS Integers, Sequences, FiniteSets, TLC

VARIABLES c, account, t, pc, op, ctx, loc, req, log, ret, pre, callers, clientId, sent, ledger

vars == <<c, account, t, pc, op, ctx, loc, req, log, ret, pre, callers, clientId, sent, ledger>>

Nil == "nil"

(* ------------------------------ bounds -------------------------------- *)

\* operations that may submit start only while the account sequence is below it
MaxSeq == 1
\* ledger sequence numbers reported by getLedgerEntries range over 0..MaxLedger
MaxLedger == 2
\* resource fees reported by simulateTransaction range over 0..MaxFee
MaxFee == 1
\* the maxAttempts handed to the test suite's poller range over 0..MaxAttempts
MaxAttempts == 6
\* number of operations a directly used Transaction builder may hold
MaxOps == 2
\* number of RPC calls the callers that share a client make between them
MaxCalls == 3

(* --------------------------- program constants ------------------------ *)

MinBaseFee == 100
PollAttempts == 5

ErrorRequiredSource == "Source Address is required"
ErrorRequiredWasm == "Wasm is required"
ErrorRequiredClient == "Client is required"
ErrorRequiredSalt == "Salt is required"
ErrorRequiredKeyPair == "Key pair is required"
ErrorWasmCodeNeedsRestore == "Wasm code has no ttl, requires a restore"
ErrorContractNeedsRestore == "Contract has no ttl, requires a restore"
ErrorContractDataNeedsRestore == "Contract data has no ttl, requires a restore"
ErrorInvokeRequiresFunction == "Function is required"

\* errors raised by collaborators (transport, codec, transaction construction)
ErrRpc == "rpc error"
ErrDecode == "xdr decode error"
ErrMarshal == "xdr marshal error"
ErrInvalidAccount == "invalid account id"
ErrBuild == "transaction construction rejected"
ErrSign == "signing failed"

(* ------------------------------ data ---------------------------------- *)

ValidAccountIds == {"GA", "GB"}
AccountIds == {"GA", "XX"}

\* hashes are tuples of strings: the zero value of a [32]byte, a digest, or a
\* hash given from outside
ZeroHash == <<"zero">>
\* len of a [32]byte, whatever it holds
HashSize == 32
Sha256(x) == <<"sha256">> \o x

\* xdr.ScAddress of kind contract
ScAddress(id) == [type |-> "Contract", id |-> id]

\* xdr.LedgerKey: the zero value has type Account and no body
LedgerKey(type, hash, contract) == [type |-> type, hash |-> hash, contract |-> contract]
EmptyKey == LedgerKey("Account", <<>>, <<>>)

\* base64 blobs of SorobanTransactionData and what they decode to (the
\* read-write footprint stands for the whole record); "" does not decode
TxDataBlobs == {"", "D1", "D2"}
FootprintOf(b) ==
    CASE b = "D1" -> <<LedgerKey("ContractData", <<>>, <<ScAddress(<<"data#1">>)>>)>>
      [] b = "D2" -> <<LedgerKey("ContractData", <<>>, <<ScAddress(<<"data#2">>)>>)>>
      [] OTHER -> <<>>
DecodeTxData(b) == [ok |-> b \in {"D1", "D2"}, val |-> FootprintOf(b)]

\* base64 blobs of SorobanAuthorizationEntry
DecodeAuth(b) ==
    CASE b = "a1" -> [ok |-> TRUE, val |-> "auth#1"]
      [] b = "a2" -> [ok |-> TRUE, val |-> "auth#2"]
      [] OTHER -> [ok |-> FALSE, val |-> ""]

\* base64 blobs of a result ScVal
DecodeScVal(b) == [ok |-> b = "r1"]

(* ----------------------- Transaction builder --------------------------- *)

\* a txnbuild.Operation held by the builder: its Go type, the host function it
\* carries, what that names (a contract address, or the code of an upload),
\* its Auth field and its Ext.SorobanData (<<>> when absent)
Operation(type, fn, target) ==
    [type |-> type, fn |-> fn, target |-> target, auth |-> <<>>, ext |-> <<>>]
IsSorobanOp(o) == o.type \in {"InvokeHostFunction", "RestoreFootprint"}

NoT ==
    [client |-> Nil, source |-> Nil, operations |-> <<>>, signers |-> <<>>,
     timeBounds |-> FALSE, memo |-> Nil, baseFee |-> 0, incrementSequenceNum |-> FALSE]

NewTransctionBuilder ==
    [client |-> Nil, source |-> Nil, operations |-> <<>>, signers |-> <<>>,
     timeBounds |-> FALSE, memo |-> Nil, baseFee |-> MinBaseFee,
     incrementSequenceNum |-> TRUE]

TxClient(tb, cl) == [tb EXCEPT !.client = cl]
TxSourceAccount(tb, s) == [tb EXCEPT !.source = s]
TxOperation(tb, o) == [tb EXCEPT !.operations = Append(@, o)]
TxSigner(tb, k) == [tb EXCEPT !.signers = Append(@, k)]
TxTimeBounds(tb) == [tb EXCEPT !.timeBounds = TRUE]
Memo(tb, m) == [tb EXCEPT !.memo = m]
BaseFee(tb, f) == [tb EXCEPT !.baseFee = f]

\* t.build.operations[0] is read without a length check
AuthorizationPanics(tb) == Len(tb.operations) = 0

\* mutant of Authorization: the entries are appended to the earlier ones
Authorization_Append(tb, auth) ==
    IF tb.operations[1].type = "InvokeHostFunction"
    THEN [tb EXCEPT !.operations[1].auth = @ \o auth]
    ELSE tb

Authorization(tb, auth) ==
    IF tb.operations[1].type = "InvokeHostFunction"
    THEN [tb EXCEPT !.operations[1].auth = auth]
    ELSE tb

SorobanData(tb, data) ==
    IF Len(tb.operations) > 0 /\ IsSorobanOp(tb.operations[1])
    THEN [tb EXCEPT !.operations[1].ext = <<data>>]
    ELSE tb

NoTx == [seq |-> 0, fee |-> 0, operations |-> <<>>, memo |-> Nil]

\* Account.IncrementSequenceNumber / GetSequenceNumber
IncrementSequenceNumber(acc) == [acc EXCEPT !.seq = @ + 1]

\* buildTx hands the build state to txnbuild.NewTransaction, which takes the
\* sequence number from the account (incrementing it when asked to) and then
\* validates the parameters; the parameters name no memo, so the transaction
\* has none
buildTx(tb, acc) ==
    IF tb.source = Nil
    THEN [st |-> "err", err |-> ErrBuild, tx |-> NoTx, acc |-> acc]
    ELSE LET acc2 == IF tb.incrementSequenceNum THEN IncrementSequenceNumber(acc) ELSE acc
             bad == \/ acc.id \notin ValidAccountIds
                    \/ tb.baseFee < 0
                    \/ Len(tb.operations) = 0
                    \/ ~tb.timeBounds
                    \/ /\ Len(tb.operations) > 1
                       /\ \E k \in 1..Len(tb.operations) : IsSorobanOp(tb.operations[k])
         IN IF bad
            THEN [st |-> "err", err |-> ErrBuild, tx |-> NoTx, acc |-> acc2]
            ELSE [st |-> "ok", err |-> "",
                  tx |-> [seq |-> acc2.seq, fee |-> tb.baseFee, operations |-> tb.operations,
                          memo |-> Nil],
                  acc |-> acc2]

\* mutant of SimulateBuild: the increment flag is not cleared for the build
SimulateBuild_KeepFlag(tb, acc) ==
    LET b == buildTx(tb, acc)
    IN [st |-> b.st, err |-> b.err, tx |-> b.tx, acc |-> b.acc, tb |-> tb]

\* first half of Simulate: build with the increment flag cleared, then put it back
SimulateBuild(tb, acc) ==
    LET increase == tb.incrementSequenceNum
        b == buildTx([tb EXCEPT !.incrementSequenceNum = FALSE], acc)
    IN [st |-> b.st, err |-> b.err, tx |-> b.tx, acc |-> b.acc,
        tb |-> [tb EXCEPT !.incrementSequenceNum = increase]]

RECURSIVE DecodeAuths(_)
DecodeAuths(bs) ==
    IF bs = <<>> THEN [ok |-> TRUE, val |-> <<>>]
    ELSE LET d == DecodeAuth(Head(bs))
             r == DecodeAuths(Tail(bs))
         IN IF d.ok /\ r.ok THEN [ok |-> TRUE, val |-> <<d.val>> \o r.val]
            ELSE [ok |-> FALSE, val |-> <<>>]

\* the loop over res.Results: every result value and every auth entry is
\* decoded, the auth entries of all results are appended in order
RECURSIVE DecodeResults(_)
DecodeResults(rs) ==
    IF rs = <<>> THEN [ok |-> TRUE, val |-> <<>>]
    ELSE LET a == DecodeAuths(Head(rs).auth)
             r == DecodeResults(Tail(rs))
         IN IF DecodeScVal(Head(rs).xdr).ok /\ a.ok /\ r.ok
            THEN [ok |-> TRUE, val |-> a.val \o r.val]
            ELSE [ok |-> FALSE, val |-> <<>>]

\* mutant of SimulatedFee: the minimum base fee is left out
SimulatedFee_NoBase(res) == res.minResourceFee

\* the base fee Simulate writes back
SimulatedFee(res) == res.minResourceFee + MinBaseFee

\* mutant of SimulateApply: the base fee is written before the response is decoded
SimulateApply_FeeFirst(tb, res) ==
    LET d == DecodeResults(res.results)
        td == DecodeTxData(res.transactionData)
        tb1 == BaseFee(tb, SimulatedFee(res))
    IN IF ~d.ok \/ ~td.ok
       THEN [st |-> "err", err |-> ErrDecode, tb |-> tb1]
       ELSE [st |-> "ok", err |-> "",
             tb |-> Authorization(SorobanData(tb1, td.val), d.val)]

\* second half of Simulate: fold the simulation result back into the builder
SimulateApply(tb, res) ==
    LET d == DecodeResults(res.results)
        td == DecodeTxData(res.transactionData)
    IN IF ~d.ok \/ ~td.ok
       THEN [st |-> "err", err |-> ErrDecode, tb |-> tb]
       ELSE [st |-> "ok", err |-> "",
             tb |-> Authorization(SorobanData(BaseFee(tb, SimulatedFee(res)), td.val), d.val)]

\* first half of Send: build (the sequence number advances) and sign
SendBuild(tb, acc) ==
    LET b == buildTx(tb, acc)
    IN IF b.st # "ok" THEN b
       ELSE IF tb.client = Nil \/ (\E k \in 1..Len(tb.signers) : tb.signers[k] = Nil)
            THEN [b EXCEPT !.st = "panic", !.err = "nil pointer dereference"]
            ELSE b

(* ------------------------------ Contract ------------------------------- *)

NewContract ==
    [wasm |-> Nil, wasmHash |-> ZeroHash, salt |-> ZeroHash, client |-> Nil,
     source |-> Nil, kp |-> Nil, address |-> <<>>]

Wasm(cc, w) == [cc EXCEPT !.wasm = w, !.wasmHash = Sha256(<<w>>)]
WasmHash(cc, h) == [cc EXCEPT !.wasmHash = h]
Salt(cc, str) == [cc EXCEPT !.salt = Sha256(<<str>>)]
Client(cc, cl) == [cc EXCEPT !.client = cl]
SourceAccount(cc, a) == [cc EXCEPT !.source = a]
KeyPair(cc, k) == [cc EXCEPT !.kp = k]
Address(cc, a) == [cc EXCEPT !.address = <<a>>]

AddressToAccountId(id) == [ok |-> id \in ValidAccountIds]

getContractIdPreimage(cc, acc) ==
    IF AddressToAccountId(acc.id).ok
    THEN [st |-> "ok", err |-> "", val |-> <<acc.id>> \o cc.salt]
    ELSE [st |-> "err", err |-> ErrInvalidAccount, val |-> <<>>]

\* mutant of ContractIdOf: the network passphrase is left out of the digest
ContractIdOf_NoNetwork(passphrase, preimage) == Sha256(<<"ContractId">> \o preimage)

\* the contract id is the digest of the network id and the preimage
ContractIdOf(passphrase, preimage) == Sha256(<<"ContractId", passphrase>> \o preimage)

GetAddress(cc, acc) ==
    IF cc.address # <<>> THEN [st |-> "ok", err |-> "", addr |-> cc.address[1], c |-> cc]
    ELSE IF cc.source = Nil
         THEN [st |-> "err", err |-> ErrorRequiredSource, addr |-> ScAddress(<<>>), c |-> cc]
    ELSE IF cc.client = Nil
         THEN [st |-> "err", err |-> ErrorRequiredClient, addr |-> ScAddress(<<>>), c |-> cc]
    ELSE IF HashSize = 0
         THEN [st |-> "err", err |-> ErrorRequiredSalt, addr |-> ScAddress(<<>>), c |-> cc]
    ELSE LET p == getContractIdPreimage(cc, acc)
         IN IF p.st # "ok"
            THEN [st |-> "err", err |-> p.err, addr |-> ScAddress(<<>>), c |-> cc]
            ELSE LET a == ScAddress(ContractIdOf(cc.client, p.val))
                 IN [st |-> "ok", err |-> "", addr |-> a, c |-> [cc EXCEPT !.address = <<a>>]]

GetCodeKey(cc) == LedgerKey("ContractCode", cc.wasmHash, <<>>)

\* an error of GetAddress is dropped: the zero LedgerKey is returned with no error
GetFootprint(cc, acc) ==
    LET g == GetAddress(cc, acc)
    IN IF g.st # "ok" THEN [key |-> EmptyKey, c |-> g.c]
       ELSE [key |-> LedgerKey("ContractData", <<>>, <<g.addr>>), c |-> g.c]

\* the results of IsCodeAlive and IsInstanceAlive: how the call ended, the
\* error, the liveness and the response handed back (<<>> for nil)
AliveResult(st, err, alive, res) == [st |-> st, err |-> err, alive |-> alive, res |-> res]

\* mutant of CodeAliveResult: alive only when strictly beyond the latest ledger
CodeAliveResult_Strict(r) ==
    IF r.err THEN AliveResult("err", ErrRpc, FALSE, <<>>)
    ELSE IF Len(r.entries) = 0
         THEN AliveResult("panic", "index out of range", FALSE, <<>>)
         ELSE AliveResult("ok", "", r.entries[1].liveUntil > r.latest, <<r>>)

\* what IsCodeAlive makes of a getLedgerEntries response: Entries[0] is read
\* without a length check
CodeAliveResult(r) ==
    IF r.err THEN AliveResult("err", ErrRpc, FALSE, <<>>)
    ELSE IF Len(r.entries) = 0
         THEN AliveResult("panic", "index out of range", FALSE, <<>>)
         ELSE AliveResult("ok", "", r.entries[1].liveUntil >= r.latest, <<r>>)

\* what IsInstanceAlive makes of a getLedgerEntries response
InstanceAliveResult(r) ==
    IF r.err THEN AliveResult("err", ErrRpc, FALSE, <<>>)
    ELSE IF Len(r.entries) = 0
         THEN AliveResult("ok", "", FALSE, <<r>>)
         ELSE AliveResult("ok", "", r.entries[1].liveUntil >= r.latest, <<r>>)

\* mutant of IsAliveResult: one live entry is enough
IsAliveResult_Or(code, instance) == code \/ instance

\* IsAlive: both checks passed without error
IsAliveResult(code, instance) == code /\ instance

\* mutant of DeployCodeCheck: the liveness is not looked at
DeployCodeCheck_NoTtl(r) == IF r.st # "ok" THEN r.err ELSE ""

\* Deploy's use of the code liveness check: the error it returns, "" to go on
DeployCodeCheck(r) ==
    IF r.st # "ok" THEN r.err
    ELSE IF ~r.alive THEN ErrorWasmCodeNeedsRestore
    ELSE ""

\* mutants of InvokeGate: the restore flag is not looked at; the preamble is
\* not acted on
InvokeGate_AlwaysRestore(restore, res) ==
    IF res.restorePreamble.minResourceFee # 0 THEN "restore" ELSE "send"

InvokeGate_NeverRestore(restore, res) ==
    IF res.restorePreamble.minResourceFee # 0 /\ ~restore THEN "fail" ELSE "send"

\* invoke's use of the simulation result: fail, restore first, or send
InvokeGate(restore, res) ==
    IF res.restorePreamble.minResourceFee # 0
    THEN IF ~restore THEN "fail" ELSE "restore"
    ELSE "send"

(* -------------------- the running operation ---------------------------- *)

\* the whole state as one record, so that the code between two RPC calls is a
\* function from state to state
Cur ==
    [c |-> c, account |-> account, t |-> t, pc |-> pc, op |-> op, ctx |-> ctx,
     loc |-> loc, req |-> req, log |-> log, ret |-> ret, pre |-> pre, ledger |-> ledger]

Becomes(n) ==
    /\ c' = n.c
    /\ account' = n.account
    /\ t' = n.t
    /\ pc' = n.pc
    /\ op' = n.op
    /\ ctx' = n.ctx
    /\ loc' = n.loc
    /\ req' = n.req
    /\ log' = n.log
    /\ ret' = n.ret
    /\ pre' = n.pre
    /\ ledger' = n.ledger
    /\ UNCHANGED <<callers, clientId, sent>>

\* locals of the running operation: the code liveness IsAlive holds, the
\* poller's attempt counter and its limit, the simulation result invoke holds, the function
\* name of the invoke build and the restore flag of invoke
NoLoc == [code |-> FALSE, i |-> 0, max |-> 0, res |-> <<>>, fn |-> "", restore |-> FALSE]
NoReq == [method |-> "", tx |-> NoTx, key |-> EmptyKey]
\* what a call returned: how it ended, the error, the liveness, the
\* getLedgerEntries response IsCodeAlive and IsInstanceAlive hand back, the
\* status and hash of a submission, the simulation result of Simulate
NoRet ==
    [st |-> "none", err |-> "", alive |-> FALSE, entries |-> <<>>, status |-> "",
     hash |-> "", res |-> <<>>, addr |-> <<>>, poll |-> <<>>]

RetErr(e) == [NoRet EXCEPT !.st = "err", !.err = e]
RetPanic == [NoRet EXCEPT !.st = "panic"]
RetAlive(r) == [NoRet EXCEPT !.st = r.st, !.err = r.err, !.alive = r.alive, !.entries = r.res]
RetSend(r) == [NoRet EXCEPT !.st = "ok", !.status = r.status, !.hash = r.hash]
RetSim(r) == [NoRet EXCEPT !.st = "ok", !.res = <<r>>]
\* the poller's return: an error, or a result that is absent (<<>>) or has a status
RetPoll(w) == IF w.st = "err" THEN RetErr(w.err) ELSE [NoRet EXCEPT !.st = "ok", !.poll = w.poll]
RetAddr(g) == IF g.st = "ok" THEN [NoRet EXCEPT !.st = "ok", !.addr = <<g.addr>>] ELSE RetErr(g.err)

\* the operation returns (or panics): its locals go away; a builder used
\* directly by the caller outlives the call
Return(s, r) ==
    [s EXCEPT !.pc = "idle", !.ret = r, !.t = IF s.ctx = "Tx" THEN s.t ELSE NoT,
              !.loc = NoLoc, !.req = NoReq, !.ctx = ""]

\* what the log keeps of the response to a call: whether the transport failed,
\* for getLedgerEntries the number of entries and how Entries[0]'s
\* liveUntilLedgerSeq compares with latestLedger, for simulateTransaction
\* whether every blob of the response decodes and whether the restore
\* preamble's fee is not zero, for getTransaction the seconds the poller slept
\* after the response
NoReply ==
    [st |-> "pending", entries |-> 0, cmp |-> "", decodes |-> FALSE, needsRestore |-> FALSE,
     slept |-> 0]

Entry(method, kind, seq) == [method |-> method, kind |-> kind, seq |-> seq, reply |-> NoReply]

LedgerReply(r) ==
    IF r.err THEN [NoReply EXCEPT !.st = "err"]
    ELSE [NoReply EXCEPT !.st = "ok", !.entries = Len(r.entries),
              !.cmp = IF r.entries = <<>> THEN ""
                      ELSE IF r.entries[1].liveUntil < r.latest THEN "lt"
                      ELSE "ge"]

SimReply(r) ==
    IF r.err THEN [NoReply EXCEPT !.st = "err"]
    ELSE [NoReply EXCEPT !.st = "ok",
              !.decodes = DecodeResults(r.results).ok /\ DecodeTxData(r.transactionData).ok,
              !.needsRestore = r.restorePreamble.minResourceFee # 0]

\* of a sendTransaction response the log keeps a transport error, the status
\* when Send was called directly, else only that it arrived
SendLogged(s, r) ==
    [NoReply EXCEPT !.st = IF r.err THEN "err" ELSE IF s.ctx = "Tx" THEN r.status ELSE "answered"]

\* of a getTransaction response the log keeps the status ("err" for a
\* transport error) when the poller was called directly; inside the Contract,
\* where the poller's result is dropped, it keeps an error, NOT_FOUND, or that
\* the status was another one
PollLogged(s, r) ==
    [NoReply EXCEPT !.st = IF s.ctx = "wait" \/ r \in {"err", "NOT_FOUND"} THEN r ELSE "terminal"]

\* the response to the pending call (the last one of the log) has arrived
Replied(s, reply) == [s EXCEPT !.log[Len(s.log)].reply = reply]

\* an RPC call goes out: it is logged and the operation waits for the response
Call(s, label, entry, tx) ==
    [s EXCEPT !.pc = label, !.req = [method |-> entry.method, tx |-> tx, key |-> EmptyKey],
              !.log = Append(@, entry)]

TxKind(tx) ==
    IF tx.operations[1].type = "RestoreFootprint" THEN "restore" ELSE tx.operations[1].fn

\* Transaction.Simulate on the builder s.t, up to the simulateTransaction call
SimulateBegin(s) ==
    LET b == SimulateBuild(s.t, s.account)
        s1 == [s EXCEPT !.t = b.tb, !.account = b.acc]
    IN IF b.st # "ok" THEN Return(s1, RetErr(b.err))
       ELSE IF s1.t.client = Nil THEN Return(s1, RetPanic)
       ELSE Call(s1, "Simulate.rpc", Entry("simulateTransaction", TxKind(b.tx), b.tx.seq), b.tx)

\* Transaction.Send on the builder tb at call site cx, up to the sendTransaction call
SendBegin(s, tb, cx) ==
    LET b == SendBuild(tb, s.account)
        s1 == [s EXCEPT !.account = b.acc, !.ctx = cx]
    IN IF b.st = "err" THEN Return(s1, RetErr(b.err))
       ELSE IF b.st = "panic" THEN Return(s1, RetPanic)
       ELSE Call(s1, "Send.rpc", Entry("sendTransaction", TxKind(b.tx), b.tx.seq), b.tx)

\* the builder chain shared by invoke, simulateSubmitHostFunction and Restore
ContractBuilder(cc, o) ==
    TxTimeBounds(TxOperation(TxSigner(TxSourceAccount(TxClient(NewTransctionBuilder,
        cc.client), cc.source), cc.kp), o))

\* the restore builder of invoke: its Soroban data is decoded from the
\* simulation's TransactionData, its fee comes from the restore preamble
InvokeRestoreBuilder(cc, res) ==
    LET d == DecodeTxData(res.transactionData)
    IN [ok |-> d.ok,
        tb |-> BaseFee(SorobanData(ContractBuilder(cc, Operation("RestoreFootprint", "restore", <<>>)),
                                   d.val),
                       res.restorePreamble.minResourceFee + MinBaseFee)]

\* Contract.invoke, up to the simulateTransaction call
invoke(s) ==
    LET g == GetAddress(s.c, s.account)
        s1 == [s EXCEPT !.c = g.c]
    IN IF g.st # "ok" THEN Return(s1, RetErr(g.err))
       ELSE IF s.c.source = Nil THEN Return(s1, RetPanic)
       ELSE SimulateBegin([s1 EXCEPT
                !.t = ContractBuilder(s.c, Operation("InvokeHostFunction", "invoke", <<g.addr>>)),
                !.ctx = "invoke"])

\* mutant of AfterSimulate: simulateSubmitHostFunction drops the error of Simulate
AfterSimulate_IgnoreError(s, r) ==
    IF s.ctx = "simulateSubmitHostFunction" THEN SendBegin(s, s.t, s.ctx)
    ELSE IF r.err THEN Return(s, RetErr(ErrRpc))
    ELSE LET a == SimulateApply(s.t, r)
             s1 == [s EXCEPT !.t = a.tb]
         IN IF a.st # "ok" THEN Return(s1, RetErr(a.err))
            ELSE IF s.ctx = "Tx" THEN Return(s1, RetSim(r))
            ELSE IF s.ctx = "Restore" THEN SendBegin(s1, s1.t, s.ctx)
            ELSE IF InvokeGate(s.loc.restore, r) = "fail"
                 THEN Return(s1, RetErr(ErrorContractDataNeedsRestore))
            ELSE IF InvokeGate(s.loc.restore, r) = "restore"
                 THEN LET b == InvokeRestoreBuilder(s.c, r)
                      IN IF ~b.ok THEN Return(s1, RetErr(ErrDecode))
                         ELSE SendBegin([s1 EXCEPT !.loc.res = <<r>>], b.tb, "invoke.restore")
            ELSE SendBegin(s1, s1.t, "invoke")

\* the caller of Transaction.Simulate goes on after the simulateTransaction
\* response r; invoke's restore branch is the only one that reads the result again
AfterSimulate(s, r) ==
    IF r.err THEN Return(s, RetErr(ErrRpc))
    ELSE LET a == SimulateApply(s.t, r)
             s1 == [s EXCEPT !.t = a.tb]
         IN IF a.st # "ok" THEN Return(s1, RetErr(a.err))
            ELSE IF s.ctx = "Tx" THEN Return(s1, RetSim(r))
            ELSE IF s.ctx \in {"simulateSubmitHostFunction", "Restore"}
                 THEN SendBegin(s1, s1.t, s.ctx)
            ELSE IF InvokeGate(s.loc.restore, r) = "fail"
                 THEN Return(s1, RetErr(ErrorContractDataNeedsRestore))
            ELSE IF InvokeGate(s.loc.restore, r) = "restore"
                 THEN LET b == InvokeRestoreBuilder(s.c, r)
                      IN IF ~b.ok THEN Return(s1, RetErr(ErrDecode))
                         ELSE SendBegin([s1 EXCEPT !.loc.res = <<r>>], b.tb, "invoke.restore")
            ELSE SendBegin(s1, s1.t, "invoke")

\* mutant of AfterWait: the Contract goes on only after a poll that found SUCCESS
AfterWait_NeedSuccess(s, w) ==
    LET s1 == [s EXCEPT !.loc.i = 0, !.loc.max = 0]
    IN IF s.ctx = "wait" THEN Return(s, RetPoll(w))
       ELSE IF w.poll # <<"SUCCESS">> THEN Return(s, RetErr(ErrRpc))
       ELSE IF s.ctx = "Restore" THEN invoke(s1) ELSE SendBegin(s1, s1.t, "invoke")

\* the poller is over with the outcome w.  Called directly it returns w; both
\* callers inside the Contract drop it and go on
AfterWait(s, w) ==
    LET s1 == [s EXCEPT !.loc.i = 0, !.loc.max = 0]
    IN IF s.ctx = "wait" THEN Return(s, RetPoll(w))
       ELSE IF s.ctx = "Restore" THEN invoke(s1) ELSE SendBegin(s1, s1.t, "invoke")

\* the head of the poller's loop: the next getTransaction call while attempts
\* are left, else the absent result with no error
PollLoop(s) ==
    IF s.loc.i < s.loc.max
    THEN Call(s, "wait.rpc", Entry("getTransaction", "", 0), NoTx)
    ELSE AfterWait(s, [st |-> "ok", err |-> "", poll |-> <<>>])

\* waitCompletedTransaction, up to its first getTransaction call.  The caller
\* has come back from Send: the simulation result invoke held is not read
\* again, and the builder of Restore went away when Restore returned
WaitBegin(s) ==
    PollLoop([s EXCEPT !.loc.i = 0, !.loc.max = PollAttempts, !.loc.res = <<>>,
                       !.t = IF s.ctx = "Restore" THEN NoT ELSE s.t])

\* time.Sleep(time.Duration(i) * 2 * time.Second) after the response to the
\* pending getTransaction call: the seconds slept, kept with that call
Sleep(s, i) == [s EXCEPT !.log[Len(s.log)].reply.slept = i * 2]

\* mutants of AfterPoll: a FAILED status is polled again; the loop makes one
\* attempt too many; an error of getTransaction is polled again; the sleep is
\* that of the attempt to come
AfterPoll_RetryFailed(s, r) ==
    IF r = "err" THEN AfterWait(s, [st |-> "err", err |-> ErrRpc, poll |-> <<>>])
    ELSE IF r \notin {"NOT_FOUND", "FAILED"} THEN AfterWait(s, [st |-> "ok", err |-> "", poll |-> <<r>>])
    ELSE PollLoop([Sleep(s, s.loc.i) EXCEPT !.loc.i = @ + 1])

AfterPoll_OneMore(s, r) ==
    IF r = "err" THEN AfterWait(s, [st |-> "err", err |-> ErrRpc, poll |-> <<>>])
    ELSE IF r # "NOT_FOUND" THEN AfterWait(s, [st |-> "ok", err |-> "", poll |-> <<r>>])
    ELSE IF s.loc.i + 1 <= s.loc.max
         THEN Call([Sleep(s, s.loc.i) EXCEPT !.loc.i = @ + 1], "wait.rpc",
                   Entry("getTransaction", "", 0), NoTx)
         ELSE AfterWait(Sleep(s, s.loc.i), [st |-> "ok", err |-> "", poll |-> <<>>])

AfterPoll_RetryError(s, r) ==
    IF r \notin {"NOT_FOUND", "err"} THEN AfterWait(s, [st |-> "ok", err |-> "", poll |-> <<r>>])
    ELSE PollLoop([Sleep(s, s.loc.i) EXCEPT !.loc.i = @ + 1])

AfterPoll_SleepNext(s, r) ==
    IF r = "err" THEN AfterWait(s, [st |-> "err", err |-> ErrRpc, poll |-> <<>>])
    ELSE IF r # "NOT_FOUND" THEN AfterWait(s, [st |-> "ok", err |-> "", poll |-> <<r>>])
    ELSE PollLoop([Sleep(s, s.loc.i + 1) EXCEPT !.loc.i = @ + 1])

\* waitCompletedTransaction after the getTransaction response r of attempt i
AfterPoll(s, r) ==
    IF r = "err" THEN AfterWait(s, [st |-> "err", err |-> ErrRpc, poll |-> <<>>])
    ELSE IF r # "NOT_FOUND" THEN AfterWait(s, [st |-> "ok", err |-> "", poll |-> <<r>>])
    ELSE PollLoop([Sleep(s, s.loc.i) EXCEPT !.loc.i = @ + 1])

\* mutant of AfterSend: a result with status ERROR is turned into an error
AfterSend_ErrorStatusFails(s, r) ==
    IF r.err \/ r.status = "ERROR" THEN Return(s, RetErr(ErrRpc))
    ELSE IF s.ctx = "invoke.restore" \/ (s.ctx = "Restore" /\ s.op = "RestoreAndSend")
         THEN WaitBegin(s)
         ELSE Return(s, RetSend(r))

\* the caller of Transaction.Send goes on after the sendTransaction response r
AfterSend(s, r) ==
    IF r.err THEN Return(s, RetErr(ErrRpc))
    ELSE IF s.ctx = "invoke.restore" \/ (s.ctx = "Restore" /\ s.op = "RestoreAndSend")
         THEN WaitBegin(s)
         ELSE Return(s, RetSend(r))

\* Contract.Restore, up to the simulateTransaction call
RestoreBegin(s) ==
    LET f == GetFootprint(s.c, s.account)
        readWrite == <<GetCodeKey(s.c), f.key>>
        s1 == [s EXCEPT !.c = f.c]
    IN IF s.c.source = Nil THEN Return(s1, RetPanic)
       ELSE SimulateBegin([s1 EXCEPT
                !.t = SorobanData(ContractBuilder(s.c, Operation("RestoreFootprint", "restore", <<>>)),
                                  readWrite),
                !.ctx = "Restore"])

\* Contract.simulateSubmitHostFunction, up to the simulateTransaction call
simulateSubmitHostFunction(s, o) ==
    SimulateBegin([s EXCEPT !.t = ContractBuilder(s.c, o), !.ctx = "simulateSubmitHostFunction"])

\* mutant of AfterIsAlive: Send invokes whatever the liveness
AfterIsAlive_NoGate(s, r) ==
    IF s.op = "IsAlive" THEN Return(s, RetAlive([r EXCEPT !.res = <<>>]))
    ELSE IF r.st # "ok" THEN Return(s, RetErr(r.err))
    ELSE IF s.op = "Send" THEN invoke(s)
         ELSE IF ~r.alive THEN RestoreBegin(s) ELSE invoke(s)

\* the callers of IsAlive go on with its result r
AfterIsAlive(s, r) ==
    IF s.op = "IsAlive" THEN Return(s, RetAlive([r EXCEPT !.res = <<>>]))
    ELSE IF r.st # "ok" THEN Return(s, RetErr(r.err))
    ELSE IF s.op = "Send"
         THEN IF ~r.alive THEN Return(s, RetErr(ErrorContractNeedsRestore)) ELSE invoke(s)
         ELSE IF ~r.alive THEN RestoreBegin(s) ELSE invoke(s)

\* the callers of IsInstanceAlive go on with its result r
AfterIsInstanceAlive(s, r) ==
    IF r.st = "panic" THEN Return(s, RetPanic)
    ELSE IF s.op = "IsInstanceAlive" THEN Return(s, RetAlive(r))
    ELSE IF r.st # "ok" THEN AfterIsAlive(s, r)
    ELSE AfterIsAlive(s, [r EXCEPT !.alive = IsAliveResult(s.loc.code, r.alive)])

\* IsInstanceAlive, up to the getLedgerEntries call; marshal says what encoding
\* the zero LedgerKey does
IsInstanceAliveBegin(s, marshal) ==
    LET f == GetFootprint(s.c, s.account)
        s1 == [s EXCEPT !.c = f.c]
    IN IF f.key = EmptyKey
       THEN AfterIsInstanceAlive(s1, AliveResult(marshal, ErrMarshal, FALSE, <<>>))
       ELSE IF s.c.client = Nil THEN Return(s1, RetPanic)
       ELSE [Call(s1, "IsInstanceAlive.rpc", Entry("getLedgerEntries", "instance", 0), NoTx)
                EXCEPT !.req.key = f.key]

\* Deploy after its code liveness check
DeployRest(s, r) ==
    IF DeployCodeCheck(r) # "" THEN Return(s, RetErr(DeployCodeCheck(r)))
    ELSE LET p == getContractIdPreimage(s.c, s.account)
         IN IF p.st # "ok" THEN Return(s, RetErr(p.err))
            ELSE simulateSubmitHostFunction(s,
                     Operation("InvokeHostFunction", "create",
                               <<ScAddress(ContractIdOf(s.c.client, p.val))>>))

\* the callers of IsCodeAlive go on with its result r
AfterIsCodeAlive(s, r, marshal) ==
    IF r.st = "panic" THEN Return(s, RetPanic)
    ELSE IF s.op = "IsCodeAlive" THEN Return(s, RetAlive(r))
    ELSE IF s.op = "Deploy" THEN DeployRest(s, r)
    ELSE IF r.st # "ok" THEN AfterIsAlive(s, r)
    ELSE IsInstanceAliveBegin([s EXCEPT !.loc.code = r.alive], marshal)

\* IsCodeAlive, up to the getLedgerEntries call
IsCodeAliveBegin(s, marshal) ==
    IF s.c.client = Nil
    THEN AfterIsCodeAlive(s, AliveResult("err", ErrorRequiredClient, FALSE, <<>>), marshal)
    ELSE [Call(s, "IsCodeAlive.rpc", Entry("getLedgerEntries", "code", 0), NoTx)
             EXCEPT !.req.key = GetCodeKey(s.c)]

(* --------------------------- RPC responses ----------------------------- *)

\* getLedgerEntries: a transport error, or latestLedger with zero or one entry
LedgerResps ==
    {[err |-> TRUE, latest |-> 0, entries |-> <<>>]} \cup
    {[err |-> FALSE, latest |-> l, entries |-> e] :
        l \in 1..MaxLedger, e \in {<<>>} \cup {<<[liveUntil |-> u]>> : u \in 0..MaxLedger}}

\* results[] of simulateTransaction: per operation a result value and auth entries
\* (the transactions of a Contract hold one operation, whose result carries at
\* most one auth entry here: ContractSimResults)
SimResults ==
    { <<>>,
      <<[xdr |-> "r1", auth |-> <<>>]>>,
      <<[xdr |-> "r1", auth |-> <<"a1">>]>>,
      <<[xdr |-> "r1", auth |-> <<"a2", "a1">>]>>,
      <<[xdr |-> "r1", auth |-> <<"a1">>], [xdr |-> "r1", auth |-> <<"a2">>]>>,
      <<[xdr |-> "", auth |-> <<"a1">>]>>,
      <<[xdr |-> "r1", auth |-> <<"a1", "">>]>>,
      <<[xdr |-> "r1", auth |-> <<>>], [xdr |-> "", auth |-> <<>>]>> }

ContractSimResults == {rs \in SimResults : Len(rs) <= 1 /\ \A k \in 1..Len(rs) : Len(rs[k].auth) <= 1}

RestorePreambles ==
    {[minResourceFee |-> 0, transactionData |-> ""]} \cup
    {[minResourceFee |-> f, transactionData |-> b] : f \in 1..MaxFee, b \in {"D1", "D2"}}

NoPreamble == [minResourceFee |-> 0, transactionData |-> ""]

SimResps ==
    {[err |-> TRUE, minResourceFee |-> 0, results |-> <<>>, transactionData |-> "",
      restorePreamble |-> NoPreamble]} \cup
    {[err |-> FALSE, minResourceFee |-> f, results |-> rs, transactionData |-> b,
      restorePreamble |-> p] :
        f \in 0..MaxFee, rs \in SimResults, b \in TxDataBlobs, p \in RestorePreambles}

\* the simulations a Contract is answered with: how Simulate folds fees and
\* auth entries of any shape into a builder is the subject of SpecTx
ContractSimResps ==
    {r \in SimResps : r.minResourceFee = 0 /\ r.results \in ContractSimResults}

SendStatuses == {"PENDING", "DUPLICATE", "TRY_AGAIN_LATER", "ERROR"}
SendResps ==
    {[err |-> TRUE, status |-> "", hash |-> ""]} \cup
    {[err |-> FALSE, status |-> st, hash |-> "tx#1"] : st \in SendStatuses}

\* getTransaction: a transport error or a status
PollResps == {"err", "NOT_FOUND", "SUCCESS", "FAILED"}

\* what encoding the zero LedgerKey does: the encoder dereferences the absent
\* body, or reports an error
MarshalOutcomes == {"panic", "err"}

(* ------------------------------ actions -------------------------------- *)

Idle == pc = "idle"

\* the ledger of the server: the keys of its live entries, and the last
\* transaction submitted with what getTransaction says of it
NoLedger == [entries |-> {}, tx |-> <<>>]

\* the goroutines that share one Contract and its client
Callers == {1, 2}

\* no caller is inside a call; the id of the rpc.Client (clientId) is zero and no request was sent
NoCallers ==
    /\ callers = [k \in Callers |-> [pc |-> "idle", copy |-> 0, ret |-> NoRet]]
    /\ clientId = 0
    /\ sent = <<>>

\* a call starts: the previous call's result and log are gone
Begin(o) ==
    [Cur EXCEPT !.op = o, !.ctx = "", !.loc = NoLoc, !.req = NoReq, !.log = <<>>,
                !.ret = NoRet, !.pre = [c |-> c, account |-> account, t |-> t, arg |-> 0]]

\* a builder call on the Contract
Configure(cc) == Becomes([Begin("") EXCEPT !.c = cc])

DoWasm == Idle /\ Configure(Wasm(c, "w1"))
DoSalt == Idle /\ Configure(Salt(c, "a1"))
DoClient == Idle /\ Configure(Client(c, "net1"))
DoSourceAccount == Idle /\ Configure(SourceAccount(c, "acct"))
DoKeyPair == Idle /\ Configure(KeyPair(c, "kp1"))
DoAddress == Idle /\ Configure(Address(c, ScAddress(<<"given">>)))

DoGetAddress ==
    /\ Idle
    /\ LET g == GetAddress(c, account)
       IN Becomes(Return([Begin("GetAddress") EXCEPT !.c = g.c], RetAddr(g)))

DoIsCodeAlive ==
    /\ Idle
    /\ \E m \in MarshalOutcomes : Becomes(IsCodeAliveBegin(Begin("IsCodeAlive"), m))

DoIsInstanceAlive ==
    /\ Idle
    /\ \E m \in MarshalOutcomes : Becomes(IsInstanceAliveBegin(Begin("IsInstanceAlive"), m))

DoIsAlive ==
    /\ Idle
    /\ \E m \in MarshalOutcomes : Becomes(IsCodeAliveBegin(Begin("IsAlive"), m))

\* the required-field switch of Install and Deploy
RequiredField(cc) ==
    IF cc.client = Nil THEN ErrorRequiredClient
    ELSE IF cc.source = Nil THEN ErrorRequiredSource
    ELSE IF cc.kp = Nil THEN ErrorRequiredKeyPair
    ELSE ""

Install(s) ==
    IF RequiredField(s.c) # "" THEN Return(s, RetErr(RequiredField(s.c)))
    ELSE simulateSubmitHostFunction(s, Operation("InvokeHostFunction", "upload", <<s.c.wasm>>))

Deploy(s, marshal) ==
    IF RequiredField(s.c) # "" THEN Return(s, RetErr(RequiredField(s.c)))
    ELSE IsCodeAliveBegin(s, marshal)

\* invokeBuilder.Send and invokeBuilder.RestoreAndSend, which differ in s.op
InvokeSend(s, marshal) ==
    IF s.loc.fn = "" THEN Return(s, RetErr(ErrorInvokeRequiresFunction))
    ELSE IsCodeAliveBegin(s, marshal)

DoInstall ==
    /\ Idle
    /\ account.seq < MaxSeq
    /\ Becomes(Install(Begin("Install")))

DoDeploy ==
    /\ Idle
    /\ account.seq < MaxSeq
    /\ \E m \in MarshalOutcomes : Becomes(Deploy(Begin("Deploy"), m))

DoRestore ==
    /\ Idle
    /\ account.seq < MaxSeq
    /\ Becomes(RestoreBegin(Begin("Restore")))

DoSend ==
    /\ Idle
    /\ account.seq < MaxSeq
    /\ \E fn \in {"", "hello"}, m \in MarshalOutcomes :
          Becomes(InvokeSend([Begin("Send") EXCEPT !.loc.fn = fn, !.loc.restore = FALSE], m))

DoRestoreAndSend ==
    /\ Idle
    /\ account.seq < MaxSeq
    /\ \E fn \in {"", "hello"}, m \in MarshalOutcomes :
          Becomes(InvokeSend([Begin("RestoreAndSend") EXCEPT !.loc.fn = fn, !.loc.restore = TRUE], m))

\* the responses of the RPC server
CodeQueryReply ==
    /\ pc = "IsCodeAlive.rpc"
    /\ \E r \in LedgerResps, m \in MarshalOutcomes :
          Becomes(AfterIsCodeAlive(Replied(Cur, LedgerReply(r)), CodeAliveResult(r), m))

InstanceQueryReply ==
    /\ pc = "IsInstanceAlive.rpc"
    /\ \E r \in LedgerResps : Becomes(AfterIsInstanceAlive(Replied(Cur, LedgerReply(r)), InstanceAliveResult(r)))

SimulateReply ==
    /\ pc = "Simulate.rpc"
    /\ \E r \in IF ctx = "Tx" THEN SimResps ELSE ContractSimResps :
          Becomes(AfterSimulate(Replied(Cur, SimReply(r)), r))

SendReply ==
    /\ pc = "Send.rpc"
    /\ \E r \in SendResps : Becomes(AfterSend(Replied(Cur, SendLogged(Cur, r)), r))

PollReply ==
    /\ pc = "wait.rpc"
    /\ \E r \in PollResps : Becomes(AfterPoll(Replied(Cur, PollLogged(Cur, r)), r))

Init ==
    /\ c = NewContract
    /\ account \in {[id |-> a, seq |-> 0] : a \in AccountIds}
    /\ t = NoT
    /\ pc = "idle"
    /\ op = ""
    /\ ctx = ""
    /\ loc = NoLoc
    /\ req = NoReq
    /\ log = <<>>
    /\ ret = NoRet
    /\ pre = [c |-> c, account |-> account, t |-> t, arg |-> 0]
    /\ NoCallers
    /\ ledger = NoLedger

Next ==
    \/ DoWasm
    \/ DoSalt
    \/ DoClient
    \/ DoSourceAccount
    \/ DoKeyPair
    \/ DoAddress
    \/ DoGetAddress
    \/ DoIsCodeAlive
    \/ DoIsInstanceAlive
    \/ DoIsAlive
    \/ DoInstall
    \/ DoDeploy
    \/ DoRestore
    \/ DoSend
    \/ DoRestoreAndSend
    \/ CodeQueryReply
    \/ InstanceQueryReply
    \/ SimulateReply
    \/ SendReply
    \/ PollReply

Spec == Init /\ [][Next]_vars

(* ------------- the Transaction builder used directly ------------------- *)

\* a builder call on the Transaction
TxConfigure(tb) == Becomes([Begin("") EXCEPT !.t = tb])

TxOperations ==
    { Operation("InvokeHostFunction", "invoke", <<>>),
      Operation("RestoreFootprint", "restore", <<>>),
      Operation("Payment", "payment", <<>>) }

DoTxClient == Idle /\ TxConfigure(TxClient(t, "net1"))
DoTxSourceAccount == Idle /\ TxConfigure(TxSourceAccount(t, "acct"))
DoTxSigner == Idle /\ t.signers = <<>> /\ TxConfigure(TxSigner(t, "kp1"))
DoTxTimeBounds == Idle /\ TxConfigure(TxTimeBounds(t))

DoTxOperation ==
    /\ Idle
    /\ Len(t.operations) < MaxOps
    /\ \E o \in TxOperations : TxConfigure(TxOperation(t, o))

DoTxMemo == Idle /\ t.memo = Nil /\ TxConfigure(Memo(t, "memo1"))
DoTxBaseFee == Idle /\ \E f \in {-1, 7} : TxConfigure(BaseFee(t, f))

DoTxAuthorization ==
    /\ Idle
    /\ \E auth \in {<<>>, <<"auth#0">>} :
          IF AuthorizationPanics(t)
          THEN Becomes(Return([Begin("Tx.Authorization") EXCEPT !.ctx = "Tx"], RetPanic))
          ELSE Becomes([Begin("Tx.Authorization") EXCEPT !.t = Authorization(t, auth)])

DoTxSorobanData ==
    /\ Idle
    /\ Becomes([Begin("Tx.SorobanData") EXCEPT !.t = SorobanData(t, FootprintOf("D2"))])

DoTxSimulate ==
    /\ Idle
    /\ Becomes(SimulateBegin([Begin("Tx.Simulate") EXCEPT !.ctx = "Tx"]))

DoTxSend ==
    /\ Idle
    /\ account.seq < MaxSeq
    /\ Becomes(SendBegin(Begin("Tx.Send"), t, "Tx"))

InitTx ==
    /\ c = NewContract
    /\ account \in {[id |-> a, seq |-> 0] : a \in AccountIds}
    /\ t = NewTransctionBuilder
    /\ pc = "idle"
    /\ op = ""
    /\ ctx = ""
    /\ loc = NoLoc
    /\ req = NoReq
    /\ log = <<>>
    /\ ret = NoRet
    /\ pre = [c |-> c, account |-> account, t |-> t, arg |-> 0]
    /\ NoCallers
    /\ ledger = NoLedger

NextTx ==
    \/ DoTxClient
    \/ DoTxSourceAccount
    \/ DoTxSigner
    \/ DoTxTimeBounds
    \/ DoTxMemo
    \/ DoTxOperation
    \/ DoTxBaseFee
    \/ DoTxAuthorization
    \/ DoTxSorobanData
    \/ DoTxSimulate
    \/ DoTxSend
    \/ SimulateReply
    \/ SendReply

SpecTx == InitTx /\ [][NextTx]_vars

(* ------------------- the completion poller on its own ------------------ *)

\* Client.waitCompletedTransaction, with its five attempts
DoWaitCompletedTransaction ==
    /\ Idle
    /\ Becomes(WaitBegin([Begin("waitCompletedTransaction") EXCEPT
                             !.ctx = "wait", !.pre.arg = PollAttempts]))

\* the test suite's WaitCompletedTransaction, the same loop with maxAttempts a parameter
DoTestWaitCompletedTransaction ==
    /\ Idle
    /\ \E m \in 0..MaxAttempts :
          Becomes(PollLoop([Begin("WaitCompletedTransaction") EXCEPT
                              !.ctx = "wait", !.pre.arg = m, !.loc.max = m]))

InitPoll ==
    /\ c = Client(NewContract, "net1")
    /\ account = [id |-> "GA", seq |-> 0]
    /\ t = NoT
    /\ pc = "idle"
    /\ op = ""
    /\ ctx = ""
    /\ loc = NoLoc
    /\ req = NoReq
    /\ log = <<>>
    /\ ret = NoRet
    /\ pre = [c |-> c, account |-> account, t |-> t, arg |-> 0]
    /\ NoCallers
    /\ ledger = NoLedger

NextPoll ==
    \/ DoWaitCompletedTransaction
    \/ DoTestWaitCompletedTransaction
    \/ PollReply

SpecPoll == InitPoll /\ [][NextPoll]_vars

(* ------------- one Contract and one client shared by callers ----------- *)

\* the Contracts the callers may share: salt set or not, client of one of two
\* networks or none, source account set or not, no address given
SharedContracts ==
    {[NewContract EXCEPT !.salt = s, !.client = p, !.source = a] :
        s \in {ZeroHash, Salt(NewContract, "a1").salt, Salt(NewContract, "a2").salt},
        p \in {Nil, "net1", "net2"},
        a \in {Nil, "acct"}}

\* GetAddress up to the end of its switch: the cached address is returned, or
\* a required field is missing, or the caller goes on to derive the address
GetAddressCheck(k) ==
    /\ callers[k].pc = "idle"
    /\ LET g == GetAddress(c, account)
       IN callers' = [callers EXCEPT ![k] =
              IF c.address = <<>> /\ c.source # Nil /\ c.client # Nil /\ HashSize # 0
              THEN [pc |-> "derive", copy |-> 0, ret |-> NoRet]
              ELSE [pc |-> "idle", copy |-> 0, ret |-> RetAddr(g)]]
    /\ UNCHANGED <<c, account, t, pc, op, ctx, loc, req, log, ret, pre, clientId, sent, ledger>>

\* the rest of GetAddress: the address is derived from the preimage and stored
\* in c.address with no lock held, whatever another caller stored meanwhile
GetAddressStore(k) ==
    /\ callers[k].pc = "derive"
    /\ LET g == GetAddress([c EXCEPT !.address = <<>>], account)
       IN /\ c' = IF g.st = "ok" THEN g.c ELSE c
          /\ callers' = [callers EXCEPT ![k] = [pc |-> "idle", copy |-> 0, ret |-> RetAddr(g)]]
    /\ UNCHANGED <<account, t, pc, op, ctx, loc, req, log, ret, pre, clientId, sent, ledger>>

\* rpc.Client.Call has a value receiver: what it works on is a copy of the
\* client, made when the call starts
CallReceiver(k) ==
    /\ callers[k].pc = "idle"
    /\ c.client # Nil
    /\ Len(sent) + Cardinality({j \in Callers : callers[j].pc = "call"}) < MaxCalls
    /\ callers' = [callers EXCEPT ![k] = [pc |-> "call", copy |-> clientId, ret |-> NoRet]]
    /\ UNCHANGED <<c, account, t, pc, op, ctx, loc, req, log, ret, pre, clientId, sent, ledger>>

\* atomic.AddUint64(&c.id, 1) on the copy gives the request its ID; the id of
\* the client the callers share is not written
CallRequest(k) ==
    /\ callers[k].pc = "call"
    /\ sent' = Append(sent, callers[k].copy + 1)
    /\ callers' = [callers EXCEPT ![k] = [pc |-> "idle", copy |-> 0, ret |-> NoRet]]
    /\ UNCHANGED <<c, account, t, pc, op, ctx, loc, req, log, ret, pre, clientId, ledger>>

InitShared ==
    /\ c \in SharedContracts
    /\ account \in {[id |-> a, seq |-> 0] : a \in ValidAccountIds \cup AccountIds}
    /\ t = NoT
    /\ pc = "idle"
    /\ op = ""
    /\ ctx = ""
    /\ loc = NoLoc
    /\ req = NoReq
    /\ log = <<>>
    /\ ret = NoRet
    /\ pre = [c |-> c, account |-> account, t |-> t, arg |-> 0]
    /\ NoCallers
    /\ ledger = NoLedger

NextShared ==
    \/ \E k \in Callers : GetAddressCheck(k)
    \/ \E k \in Callers : GetAddressStore(k)
    \/ \E k \in Callers : CallReceiver(k)
    \/ \E k \in Callers : CallRequest(k)

SpecShared == InitShared /\ [][NextShared]_vars

(* ---------------- the lifecycle on a ledger that works ----------------- *)

\* the Contracts the lifecycle starts from: configured as the test suite does,
\* with the salt set or not, and with no address, the address GetAddress has
\* cached, the address it cached before Salt was called, or a given address
LifeContracts(acc) ==
    LET b0 == KeyPair(SourceAccount(Client(Wasm(NewContract, "w1"), "net1"), "acct"), "kp1")
        b1 == Salt(b0, "a1")
    IN {b0, b1, GetAddress(b1, acc).c, Salt(GetAddress(b0, acc).c, "a1"),
        Address(b1, ScAddress(<<"given">>))}

\* Install, on a ledger nothing was submitted to
LifeInstall ==
    /\ Idle
    /\ ledger.tx = <<>>
    /\ Becomes(Install(Begin("Install")))

\* Deploy, once the poller has found the upload completed
LifeDeploy ==
    /\ Idle
    /\ op = "WaitCompletedTransaction"
    /\ ret.poll = <<"SUCCESS">>
    /\ TxKind(ledger.tx[1].tx) = "upload"
    /\ \E m \in MarshalOutcomes : Becomes(Deploy(Begin("Deploy"), m))

\* Invoke.Send, once the poller has found the create-contract completed
LifeSend ==
    /\ Idle
    /\ op = "WaitCompletedTransaction"
    /\ ret.poll = <<"SUCCESS">>
    /\ TxKind(ledger.tx[1].tx) = "create"
    /\ \E m \in MarshalOutcomes :
          Becomes(InvokeSend([Begin("Send") EXCEPT !.loc.fn = "hello", !.loc.restore = FALSE], m))

\* the server answers the pending call from its ledger, with no transport
\* error: an entry is reported, alive, exactly when the ledger holds its key; a
\* simulation succeeds and asks for no restore; a submission is recorded and,
\* if PENDING, completes by the time of some later getTransaction, a
\* successful upload creating the code entry and a successful create-contract
\* the instance entry
LifeReply ==
    LET Answers(key) ==
            {r \in LedgerResps :
                /\ ~r.err
                /\ IF key \in ledger.entries
                   THEN r.entries # <<>> /\ r.entries[1].liveUntil >= r.latest
                   ELSE r.entries = <<>>}
        Created(tx) ==
            CASE TxKind(tx) = "upload" ->
                    {LedgerKey("ContractCode", Sha256(tx.operations[1].target), <<>>)}
              [] TxKind(tx) = "create" ->
                    {LedgerKey("ContractData", <<>>, tx.operations[1].target)}
              [] OTHER -> {}
        Polled(r) ==
            IF r = "NOT_FOUND" THEN ledger
            ELSE [entries |-> IF r = "SUCCESS" THEN ledger.entries \cup Created(ledger.tx[1].tx)
                              ELSE ledger.entries,
                  tx |-> <<[ledger.tx[1] EXCEPT !.status = r]>>]
    IN \/ /\ pc = "IsCodeAlive.rpc"
          /\ \E r \in Answers(req.key), m \in MarshalOutcomes :
                Becomes(AfterIsCodeAlive(Replied(Cur, LedgerReply(r)), CodeAliveResult(r), m))
       \/ /\ pc = "IsInstanceAlive.rpc"
          /\ \E r \in Answers(req.key) :
                Becomes(AfterIsInstanceAlive(Replied(Cur, LedgerReply(r)), InstanceAliveResult(r)))
       \/ /\ pc = "Simulate.rpc"
          /\ \E r \in ContractSimResps :
                /\ ~r.err /\ SimReply(r).decodes /\ ~SimReply(r).needsRestore
                /\ Becomes(AfterSimulate(Replied(Cur, SimReply(r)), r))
       \/ /\ pc = "Send.rpc"
          /\ \E r \in SendResps :
                /\ ~r.err
                /\ Becomes([AfterSend(Replied(Cur, SendLogged(Cur, r)), r) EXCEPT
                        !.ledger.tx = <<[tx |-> req.tx, accepted |-> r.status = "PENDING",
                                         status |-> "NOT_FOUND"]>>])
       \/ /\ pc = "wait.rpc"
          /\ \E r \in PollResps \ {"err"} :
                /\ IF ledger.tx = <<>> \/ ~ledger.tx[1].accepted THEN r = "NOT_FOUND"
                   ELSE ledger.tx[1].status \in {"NOT_FOUND", r}
                /\ Becomes([AfterPoll(Replied(Cur, PollLogged(Cur, r)), r) EXCEPT
                        !.ledger = IF ledger.tx = <<>> THEN ledger ELSE Polled(r)])

InitLife ==
    /\ account \in {[id |-> a, seq |-> 0] : a \in AccountIds}
    /\ c \in LifeContracts(account)
    /\ t = NoT
    /\ pc = "idle"
    /\ op = ""
    /\ ctx = ""
    /\ loc = NoLoc
    /\ req = NoReq
    /\ log = <<>>
    /\ ret = NoRet
    /\ pre = [c |-> c, account |-> account, t |-> t, arg |-> 0]
    /\ NoCallers
    /\ ledger = NoLedger

NextLife ==
    \/ LifeInstall
    \/ DoTestWaitCompletedTransaction
    \/ LifeDeploy
    \/ LifeSend
    \/ LifeReply

SpecLife == InitLife /\ [][NextLife]_vars

(* ------------------------------ properties ----------------------------- *)

\* positions in the log of the calls of a method that carry a kind
Idx(method, kind) == {i \in 1..Len(log) : log[i].method = method /\ log[i].kind = kind}

\* the invoke simulations whose result Transaction.Simulate returned and whose
\* restore preamble names a fee
StaleSims ==
    {i \in Idx("simulateTransaction", "invoke") :
        log[i].reply.st = "ok" /\ log[i].reply.decodes /\ log[i].reply.needsRestore}

InvokeSent == Idx("sendTransaction", "invoke")
RestoreSent == Idx("sendTransaction", "restore")

\* the liveness the precondition check was told by the server
CodeLive ==
    \E i \in Idx("getLedgerEntries", "code") :
        log[i].reply.st = "ok" /\ log[i].reply.entries = 1 /\ log[i].reply.cmp = "ge"
InstanceLive ==
    \E i \in Idx("getLedgerEntries", "instance") :
        log[i].reply.st = "ok" /\ log[i].reply.entries = 1 /\ log[i].reply.cmp = "ge"

\* C1: Invoke.Send, once Simulate has returned a result whose
\* restorePreamble.minResourceFee is not zero, has failed with
\* ContractDataNeedsRestore and has issued no sendTransaction call at all.
C1_SendRestoreGate ==
    (op = "Send" /\ StaleSims # {}) =>
        /\ pc = "idle"
        /\ ret.st = "err"
        /\ ret.err = ErrorContractDataNeedsRestore
        /\ \A i \in 1..Len(log) : log[i].method # "sendTransaction"

C1_Witness ==
    /\ op = "Send"
    /\ pc = "idle"
    /\ StaleSims # {}
    /\ ret.err = ErrorContractDataNeedsRestore

\* C2 as stated: in Invoke.RestoreAndSend, when the invoke simulation reports
\* a restore preamble fee and the invoke transaction is submitted, exactly one
\* restore-footprint transaction is submitted, before the invoke transaction.
C2_ExactlyOneRestore ==
    (op = "RestoreAndSend" /\ StaleSims # {} /\ InvokeSent # {}) =>
        /\ Cardinality(RestoreSent) = 1
        /\ \A i \in RestoreSent, j \in InvokeSent : i < j

\* C2 amended: in that case exactly one restore-footprint transaction is
\* submitted between the invoke simulation and the invoke submission, one more
\* (that of Contract.Restore) is submitted before the simulation exactly when
\* the precondition check did not find code and instance alive, and every
\* restore submission precedes the single invoke submission.
C2_RestoresBeforeInvoke ==
    (op = "RestoreAndSend" /\ StaleSims # {} /\ InvokeSent # {}) =>
        /\ Cardinality(InvokeSent) = 1
        /\ \A i \in RestoreSent, j \in InvokeSent : i < j
        /\ Cardinality({i \in RestoreSent : \E k \in StaleSims : k < i}) = 1
        /\ Cardinality({i \in RestoreSent : \A k \in StaleSims : i < k})
             = IF CodeLive /\ InstanceLive THEN 0 ELSE 1

C2_Witness ==
    /\ op = "RestoreAndSend"
    /\ pc = "idle"
    /\ ret.st = "ok"
    /\ StaleSims # {}
    /\ InvokeSent # {}
    /\ Cardinality(RestoreSent) = 1

\* C3: the restore-footprint transaction that invoke submits carries the
\* footprint data decoded from the simulation's restorePreamble.transactionData.
C3_RestoreCarriesPreambleData ==
    (pc = "Send.rpc" /\ ctx = "invoke.restore") =>
        req.tx.operations[1].ext
            = <<DecodeTxData(loc.res[1].restorePreamble.transactionData).val>>

\* C4: after a successful Transaction.Simulate the builder's base fee is the
\* simulation's minResourceFee plus the minimum base fee.
C4_BaseFeeAfterSimulate ==
    (pc = "idle" /\ op = "Tx.Simulate" /\ ret.st = "ok") =>
        t.baseFee = ret.res[1].minResourceFee + MinBaseFee

C4_Witness ==
    /\ pc = "idle"
    /\ op = "Tx.Simulate"
    /\ ret.st = "ok"
    /\ pre.t.baseFee = 7
    /\ ret.res[1].minResourceFee = MaxFee

\* all auth entries of all results of a simulation, decoded, in order
RECURSIVE AuthBlobs(_)
AuthBlobs(rs) == IF rs = <<>> THEN <<>> ELSE Head(rs).auth \o AuthBlobs(Tail(rs))
AggregateAuth(rs) == [j \in 1..Len(AuthBlobs(rs)) |-> DecodeAuth(AuthBlobs(rs)[j]).val]

SimulatedSoleSorobanOp ==
    /\ pc = "idle"
    /\ op = "Tx.Simulate"
    /\ ret.st = "ok"
    /\ Len(t.operations) = 1
    /\ IsSorobanOp(t.operations[1])

\* C5 as stated: after a successful Simulate on a builder whose sole operation
\* is invoke-host-function or restore-footprint, that operation's
\* authorization is the aggregate of the simulation's auth entries.
C5_AuthOnSorobanOp ==
    SimulatedSoleSorobanOp => t.operations[1].auth = AggregateAuth(ret.res[1].results)

\* C5 amended: that holds when the sole operation is invoke-host-function,
\* whatever authorization it had before; a restore-footprint operation is
\* given no authorization.
C5_AuthOnInvokeOp ==
    SimulatedSoleSorobanOp =>
        IF t.operations[1].type = "InvokeHostFunction"
        THEN t.operations[1].auth = AggregateAuth(ret.res[1].results)
        ELSE t.operations[1].auth = <<>>

C5_Witness ==
    /\ SimulatedSoleSorobanOp
    /\ t.operations[1].type = "InvokeHostFunction"
    /\ pre.t.operations[1].auth = <<"auth#0">>
    /\ Len(ret.res[1].results) = 2
    /\ t.operations[1].auth = <<"auth#1", "auth#2">>

\* C6: from the start of Transaction.Simulate to its end, whatever the
\* outcome, the account's sequence number is the one before the call, and the
\* builder's increment-sequence flag is back at its value before the call.
C6_SimulateKeepsSequence ==
    (op = "Tx.Simulate") =>
        /\ account.seq = pre.account.seq
        /\ (pc = "idle" => t.incrementSequenceNum = pre.t.incrementSequenceNum)

C6_Witness ==
    /\ pc = "idle"
    /\ op = "Tx.Simulate"
    /\ ret.st = "ok"
    /\ pre.t.incrementSequenceNum
    /\ pre.account.seq > 0

\* C7: IsCodeAlive and IsInstanceAlive, answered with an entry, return alive
\* exactly when the entry's liveUntilLedgerSeq is at least latestLedger.
C7_AliveIffNotExpired ==
    (pc = "idle" /\ op \in {"IsCodeAlive", "IsInstanceAlive"} /\ Len(log) = 1
        /\ log[1].reply.st = "ok" /\ log[1].reply.entries = 1) =>
        /\ ret.st = "ok"
        /\ ret.alive = (log[1].reply.cmp = "ge")
        /\ ret.alive = (ret.entries[1].entries[1].liveUntil >= ret.entries[1].latest)

C7_Witness ==
    /\ pc = "idle"
    /\ op = "IsCodeAlive"
    /\ Len(log) = 1
    /\ log[1].reply.st = "ok"
    /\ log[1].reply.entries = 1
    /\ ret.entries[1].entries[1].liveUntil = ret.entries[1].latest
    /\ ret.alive

\* C8: IsCodeAlive, IsInstanceAlive and IsAlive, answered with zero entries by
\* a query that succeeded, return alive = false with no error and no crash.
C8_NoEntryIsNotAlive ==
    (pc = "idle" /\ op \in {"IsCodeAlive", "IsInstanceAlive", "IsAlive"}
        /\ \E i \in 1..Len(log) : log[i].reply.st = "ok" /\ log[i].reply.entries = 0) =>
        (ret.st = "ok" /\ ~ret.alive)

\* C9: IsAlive returns the conjunction of the code liveness and the instance
\* liveness; when the code check fails IsAlive returns its error and asks
\* nothing about the instance.
C9_IsAliveIsConjunction ==
    (pc = "idle" /\ op = "IsAlive") =>
        /\ ret.st = "ok" => ret.alive = (CodeLive /\ InstanceLive)
        /\ pre.c.client = Nil =>
              (ret.st = "err" /\ ret.err = ErrorRequiredClient /\ log = <<>>)
        /\ (\E i \in Idx("getLedgerEntries", "code") : log[i].reply.st = "err") =>
              (ret.st = "err" /\ ret.err = ErrRpc /\ Idx("getLedgerEntries", "instance") = {})

C9_Witness ==
    /\ pc = "idle"
    /\ op = "IsAlive"
    /\ ret.st = "ok"
    /\ CodeLive
    /\ ~InstanceLive
    /\ ~ret.alive

\* C10: Deploy, told that the code entry exists with liveUntilLedgerSeq below
\* latestLedger, fails with the code-needs-restore error and issues neither a
\* simulateTransaction nor a sendTransaction call.
C10_DeployNeedsLiveCode ==
    (op = "Deploy" /\ \E i \in Idx("getLedgerEntries", "code") :
                          log[i].reply.entries = 1 /\ log[i].reply.cmp = "lt") =>
        /\ pc = "idle"
        /\ ret.st = "err"
        /\ ret.err = ErrorWasmCodeNeedsRestore
        /\ \A i \in 1..Len(log) :
              log[i].method \notin {"simulateTransaction", "sendTransaction"}

C10_Witness ==
    /\ op = "Deploy"
    /\ pc = "idle"
    /\ ret.err = ErrorWasmCodeNeedsRestore
    /\ Len(log) = 1
    /\ log[1].reply.cmp = "lt"

\* the calls of the log that reached the network through a method
Calls(method) == {i \in 1..Len(log) : log[i].method = method}

\* C11: Deploy, told by the ledger query for the code key that there is no
\* entry, returns an error and submits nothing.
C11_DeployWithoutCodeFails ==
    (pc = "idle" /\ op = "Deploy"
        /\ \E i \in Idx("getLedgerEntries", "code") :
              log[i].reply.st = "ok" /\ log[i].reply.entries = 0) =>
        /\ ret.st = "err"
        /\ Calls("sendTransaction") = {}

\* IsAlive came back with false and no error: the code entry was there, the
\* instance query was answered, and one of the two is not alive
IsAliveFalse ==
    /\ \E i \in Idx("getLedgerEntries", "code") :
          log[i].reply.st = "ok" /\ log[i].reply.entries = 1
    /\ \E i \in Idx("getLedgerEntries", "instance") : log[i].reply.st = "ok"
    /\ ~(CodeLive /\ InstanceLive)

\* C12: Invoke.Send, once IsAlive has returned false, has failed with
\* ContractNeedsRestore and has issued no simulateTransaction and no
\* sendTransaction call.
C12_SendNeedsLiveContract ==
    (op = "Send" /\ IsAliveFalse) =>
        /\ pc = "idle"
        /\ ret.st = "err"
        /\ ret.err = ErrorContractNeedsRestore
        /\ Calls("simulateTransaction") = {}
        /\ Calls("sendTransaction") = {}

C12_Witness ==
    /\ op = "Send"
    /\ pc = "idle"
    /\ IsAliveFalse
    /\ CodeLive
    /\ ret.err = ErrorContractNeedsRestore

\* the simulations of the log that Transaction.Simulate returned without error,
\* and those it returned an error for
SimsSucceeded ==
    {i \in Calls("simulateTransaction") : log[i].reply.st = "ok" /\ log[i].reply.decodes}
SimsFailed ==
    {i \in Calls("simulateTransaction") :
        log[i].reply.st = "err" \/ (log[i].reply.st = "ok" /\ ~log[i].reply.decodes)}

\* C13: Install makes no getLedgerEntries query.  An Install whose required
\* fields are there and whose transaction builds makes exactly one
\* simulateTransaction call (any other makes none); exactly one sendTransaction
\* call follows it when the simulation succeeded, and when the simulation
\* failed Install has returned the error and nothing is submitted.
C13_InstallSimulatesThenSends ==
    (op = "Install") =>
        /\ Calls("getLedgerEntries") = {}
        /\ Calls("getTransaction") = {}
        /\ Cardinality(Calls("simulateTransaction")) =
              IF RequiredField(pre.c) = "" /\ pre.account.id \in ValidAccountIds THEN 1 ELSE 0
        /\ Cardinality(Calls("sendTransaction")) = Cardinality(SimsSucceeded)
        /\ \A i \in Calls("simulateTransaction"), j \in Calls("sendTransaction") : i < j
        /\ SimsFailed # {} => (pc = "idle" /\ ret.st = "err")

C13_Witness ==
    /\ op = "Install"
    /\ pc = "idle"
    /\ ret.st = "ok"
    /\ Len(log) = 2
    /\ log[1].method = "simulateTransaction"
    /\ log[1].kind = "upload"
    /\ log[2].method = "sendTransaction"
    /\ log[2].kind = "upload"

\* C14: Install on a Contract that lacks one of its required fields (code
\* bytes, signer, source account, client) has issued no RPC call and returns
\* the required-field error of a missing field.
C14_InstallFailsFast ==
    (op = "Install"
        /\ (pre.c.wasm = Nil \/ pre.c.kp = Nil \/ pre.c.source = Nil \/ pre.c.client = Nil)) =>
        /\ log = <<>>
        /\ pc = "idle"
        /\ ret.st = "err"
        /\ ret.err \in
              {e \in {ErrorRequiredWasm, ErrorRequiredKeyPair, ErrorRequiredSource,
                      ErrorRequiredClient} :
                  \/ e = ErrorRequiredWasm /\ pre.c.wasm = Nil
                  \/ e = ErrorRequiredKeyPair /\ pre.c.kp = Nil
                  \/ e = ErrorRequiredSource /\ pre.c.source = Nil
                  \/ e = ErrorRequiredClient /\ pre.c.client = Nil}

\* C15: on a Contract whose salt was never set, Deploy does not get as far as
\* simulating a create-contract operation, and GetAddress (with nothing else
\* missing and no address given) fails with the salt-required error.
C15_UnsetSaltRejected ==
    (pre.c.salt = ZeroHash) =>
        /\ op = "Deploy" => Calls("simulateTransaction") = {}
        /\ (pc = "idle" /\ op = "GetAddress" /\ pre.c.address = <<>>
               /\ pre.c.source # Nil /\ pre.c.client # Nil) =>
              (ret.st = "err" /\ ret.err = ErrorRequiredSalt)

\* C16: Invoke.Send, Invoke.RestoreAndSend and Restore on a Contract that lacks
\* its source account, its client or its signer have issued no RPC call and
\* return a configuration error.
C16_ConfigurationErrorBeforeRpc ==
    (op \in {"Send", "RestoreAndSend", "Restore"}
        /\ (pre.c.source = Nil \/ pre.c.client = Nil \/ pre.c.kp = Nil)) =>
        /\ log = <<>>
        /\ pc = "idle"
        /\ ret.st = "err"
        /\ ret.err \in {ErrorRequiredSource, ErrorRequiredClient, ErrorRequiredKeyPair,
                        ErrorInvokeRequiresFunction}

\* the poller called directly, and the statuses its queries were answered with
PollOps == {"waitCompletedTransaction", "WaitCompletedTransaction"}
Statuses == [i \in 1..Len(log) |-> log[i].reply.st]

\* C17: as soon as a query of the poller is answered with a status other than
\* NOT_FOUND, the poller has returned the result with that status and makes no
\* further query; every earlier query was answered NOT_FOUND.
C17_PollerReturnsFirstFound ==
    (op \in PollOps) =>
        \A i \in 1..Len(log) :
            Statuses[i] \notin {"pending", "NOT_FOUND", "err"} =>
                /\ i = Len(log)
                /\ pc = "idle"
                /\ ret.st = "ok"
                /\ ret.poll = <<Statuses[i]>>
                /\ \A j \in 1..(i - 1) : Statuses[j] = "NOT_FOUND"

C17_Witness ==
    /\ op \in PollOps
    /\ pc = "idle"
    /\ Statuses = <<"NOT_FOUND", "NOT_FOUND", "SUCCESS">>
    /\ ret.poll = <<"SUCCESS">>

\* C18: a poller all of whose queries were answered NOT_FOUND never makes more
\* than maxAttempts queries (5 for the built-in one), and has returned after
\* exactly that many, with an absent result and no error.
C18_PollerExhausts ==
    (op \in PollOps /\ \A i \in 1..Len(log) : Statuses[i] \in {"NOT_FOUND", "pending"}) =>
        /\ op = "waitCompletedTransaction" => pre.arg = PollAttempts
        /\ Len(log) <= pre.arg
        /\ pc = "idle" =>
              (Len(log) = pre.arg /\ ret.st = "ok" /\ ret.err = "" /\ ret.poll = <<>>)

C18_Witness ==
    /\ op = "waitCompletedTransaction"
    /\ pc = "idle"
    /\ Statuses = <<"NOT_FOUND", "NOT_FOUND", "NOT_FOUND", "NOT_FOUND", "NOT_FOUND">>
    /\ ret.st = "ok"
    /\ ret.poll = <<>>

\* C19: as soon as a query of the poller fails, the poller has returned that
\* error and makes no further query.
C19_PollerStopsOnError ==
    (op \in PollOps) =>
        \A i \in 1..Len(log) :
            Statuses[i] = "err" =>
                /\ i = Len(log)
                /\ pc = "idle"
                /\ ret.st = "err"
                /\ ret.err = ErrRpc
                /\ ret.poll = <<>>

C19_Witness ==
    /\ op \in PollOps
    /\ pc = "idle"
    /\ Statuses = <<"NOT_FOUND", "err">>
    /\ ret.st = "err"

\* the polls of the log that ran out: PollAttempts queries in a row, all
\* answered NOT_FOUND
ExhaustedPolls ==
    {i \in 1..Len(log) :
        /\ i + PollAttempts - 1 <= Len(log)
        /\ \A k \in 0..(PollAttempts - 1) :
              log[i + k].method = "getTransaction" /\ log[i + k].reply.st = "NOT_FOUND"}

\* the errors an operation of the Contract returns for other reasons
OrdinaryErrors ==
    {ErrRpc, ErrDecode, ErrMarshal, ErrInvalidAccount, ErrBuild, ErrSign,
     ErrorRequiredSource, ErrorRequiredClient, ErrorRequiredKeyPair, ErrorRequiredWasm,
     ErrorRequiredSalt, ErrorWasmCodeNeedsRestore, ErrorContractNeedsRestore,
     ErrorContractDataNeedsRestore, ErrorInvokeRequiresFunction}

\* C20: an Invoke.RestoreAndSend during which a completion poll ran out
\* returns something other than an ordinary submission result or an ordinary
\* error, from which its caller can tell that the poll was inconclusive.
C20_InconclusivePollSurfaced ==
    (pc = "idle" /\ op = "RestoreAndSend" /\ ExhaustedPolls # {}) =>
        /\ ret.st # "ok"
        /\ ret.st # "panic"
        /\ ret.err \notin OrdinaryErrors

\* the operations of the Contract that submit transactions
SubmittingOps == {"Install", "Deploy", "Restore", "Send", "RestoreAndSend"}

\* C21: in Install, Deploy, Restore, Invoke.Send and Invoke.RestoreAndSend, as
\* soon as an RPC call (liveness query, simulate, send, or a getTransaction of
\* the completion poll) fails, the operation has returned that error and makes
\* no further call.
C21_RpcErrorsPropagate ==
    (op \in SubmittingOps) =>
        \A i \in 1..Len(log) :
            log[i].reply.st = "err" =>
                /\ i = Len(log)
                /\ pc = "idle"
                /\ ret.st = "err"
                /\ ret.err = ErrRpc

\* the getTransaction queries that ended a completion poll: answered with an
\* error or a status other than NOT_FOUND, or the last of a poll that ran out
PollEnds ==
    LET exhausted == ExhaustedPolls
    IN  {q \in Calls("getTransaction") :
            \/ log[q].reply.st \in {"err", "terminal"}
            \/ (q - PollAttempts + 1) \in exhausted}

\* the restore submissions the server accepted
RestoreAccepted == {i \in RestoreSent : log[i].reply.st = "answered"}

\* C22 as stated: an Invoke.RestoreAndSend in which a restore transaction was
\* accepted has submitted the invoke transaction by the time it returns, after
\* the restore submission and the poll's queries.
C22_InvokeAlwaysSubmitted ==
    (pc = "idle" /\ op = "RestoreAndSend" /\ RestoreAccepted # {}) =>
        /\ InvokeSent # {}
        /\ \A j \in InvokeSent : \A i \in RestoreSent \cup Calls("getTransaction") : i < j

\* C22 amended: in Invoke.RestoreAndSend every accepted restore submission is
\* followed by the poller, which makes at most 5 queries in a row, and however
\* the poll ends (a status other than NOT_FOUND, an error, or exhaustion) the
\* operation goes on: after the restore that invoke itself submitted the next
\* call is the submission of the invoke; after Contract.Restore the next call
\* is the simulation of the invoke, which is submitted only if that simulation
\* and whatever restore it asks for succeed.  Every restore submission and
\* every poll query precedes the invoke submission.
C22_PollNeverGatesInvoke ==
    (op = "RestoreAndSend") =>
        LET accepted == RestoreAccepted
            polls == Calls("getTransaction")
            ends == PollEnds
            sims == Idx("simulateTransaction", "invoke")
        IN  /\ \A i \in accepted : Len(log) > i /\ log[i + 1].method = "getTransaction"
            /\ \A q \in polls :
                  /\ \E i \in accepted : i < q
                  /\ \E k \in 0..(PollAttempts - 1) : q - k >= 1 /\ (q - k - 1) \in accepted
            /\ \A q \in ends :
                  /\ Len(log) > q
                  /\ log[q + 1].kind = "invoke"
                  /\ log[q + 1].method =
                        IF \E k \in sims : k < q
                        THEN "sendTransaction" ELSE "simulateTransaction"
            /\ \A j \in InvokeSent : \A i \in RestoreSent \cup polls : i < j

C22_Witness ==
    /\ op = "RestoreAndSend"
    /\ pc = "idle"
    /\ ret.st = "ok"
    /\ ExhaustedPolls # {}
    /\ \E q \in PollEnds : log[q].reply.st = "terminal"
    /\ InvokeSent # {}

\* C24: once GetAddress has derived and cached the address of a Contract, no
\* builder call and no operation changes it.
C24_CachedAddressImmutable ==
    [][(c.address # <<>> /\ c.address[1].id # <<"given">>) => c'.address = c.address]_vars

\* C29: IsAlive, IsCodeAlive and IsInstanceAlive leave every field of the
\* Contract, the cached address included, and the source account's sequence
\* number as they were before the call, and issue only getLedgerEntries calls.
C29_LivenessQueriesArePure ==
    (op \in {"IsAlive", "IsCodeAlive", "IsInstanceAlive"}) =>
        /\ c = pre.c
        /\ account = pre.account
        /\ \A i \in 1..Len(log) : log[i].method = "getLedgerEntries"

\* C25: Transaction.Send makes one sendTransaction call and, whatever status
\* (PENDING, DUPLICATE, TRY_AGAIN_LATER, ERROR) the server answers with,
\* returns that result with no error, without polling and without retrying.
C25_SendReturnsAcceptance ==
    (op = "Tx.Send") =>
        /\ Len(log) <= 1
        /\ \A i \in 1..Len(log) : log[i].method = "sendTransaction"
        /\ (log # <<>> /\ log[1].reply.st \in SendStatuses) =>
              /\ pc = "idle"
              /\ ret.st = "ok"
              /\ ret.err = ""
              /\ ret.status = log[1].reply.st
              /\ ret.hash = "tx#1"

C25_Witness ==
    /\ op = "Tx.Send"
    /\ pc = "idle"
    /\ Len(log) = 1
    /\ log[1].reply.st = "ERROR"
    /\ ret.st = "ok"
    /\ ret.status = "ERROR"

\* C26: Transaction.Authorization and Transaction.SorobanData, called on a
\* builder that holds no operation or whose leading operation is neither
\* invoke-host-function nor restore-footprint, do not fail and leave the
\* builder as it was.
C26_NoEffectWithoutSorobanOp ==
    (pc = "idle" /\ op \in {"Tx.Authorization", "Tx.SorobanData"}
        /\ (pre.t.operations = <<>> \/ ~IsSorobanOp(pre.t.operations[1]))) =>
        /\ ret.st # "panic"
        /\ t = pre.t

\* C23: the address a caller got from GetAddress is the one any Contract with
\* the same source account id, salt and network passphrase derives, and (the
\* hash being injective) a Contract that differs in one of the three derives
\* another one.
C23_AddressDeterministic ==
    \A k \in Callers :
        callers[k].ret.addr # <<>> =>
            \A cc \in SharedContracts, a \in ValidAccountIds \cup AccountIds :
                LET g == GetAddress(cc, [id |-> a, seq |-> 0])
                IN g.st = "ok" =>
                      ((g.addr = callers[k].ret.addr[1])
                          <=> (cc.salt = c.salt /\ cc.client = c.client /\ a = account.id))

C23_Witness ==
    /\ \A k \in Callers : callers[k].pc = "idle" /\ callers[k].ret.addr # <<>>
    /\ callers[1].ret.addr = callers[2].ret.addr
    /\ c.salt # ZeroHash
    /\ c.client = "net2"
    /\ account.id = "GB"

\* C27: the request ids of the calls made through one client are strictly
\* increasing in the order the requests were made, so no two are the same.
C27_RequestIdsIncrease ==
    \A i, j \in 1..Len(sent) : i < j => sent[i] < sent[j]

\* C28: at no time are two callers of GetAddress on one Contract both between
\* the check that no address is cached and the store of the derived address.
C28_DerivationSerialized ==
    Cardinality({k \in Callers : callers[k].pc = "derive"}) <= 1

\* C30: on a ledger that works, with Install, Deploy and Invoke.Send run in
\* that order on one Contract, each after the transaction before it was
\* polled to SUCCESS, no step fails with the code-needs-restore or the
\* contract-needs-restore error, and each step, once over, has submitted
\* exactly one transaction.
C30_LifecycleOrder ==
    (op \in {"Install", "Deploy", "Send"} /\ pre.account.id \in ValidAccountIds) =>
        /\ ret.err \notin {ErrorWasmCodeNeedsRestore, ErrorContractNeedsRestore}
        /\ pc = "idle" => Cardinality(Calls("sendTransaction")) = 1

\* the seconds the poller has slept before its k-th query (k counted from 0)
SleptBefore(k) ==
    LET RECURSIVE Sum(_)
        Sum(n) == IF n = 0 THEN 0 ELSE Sum(n - 1) + log[n].reply.slept
    IN  Sum(k)

\* C31: the poller sleeps i*2 seconds after its i-th query (i counted from 0)
\* was answered NOT_FOUND, and after no other answer; so it does not sleep
\* after query 0, and before its k-th query it has slept k*(k-1) seconds.
C31_PollerBackoff ==
    (op \in PollOps) =>
        \A k \in 0..(Len(log) - 1) :
            /\ log[k + 1].reply.slept = IF Statuses[k + 1] = "NOT_FOUND" THEN k * 2 ELSE 0
            /\ SleptBefore(k) = k * (k - 1)

C31_Witness ==
    /\ op = "waitCompletedTransaction"
    /\ pc = "wait.rpc"
    /\ Len(log) = PollAttempts
    /\ SleptBefore(PollAttempts - 1) = 12
    /\ log[1].reply.slept = 0
    /\ log[4].reply.slept = 6

\* the sequence numbers of the transactions handed to sendTransaction, in order
SubmittedSeqs ==
    LET RECURSIVE Seqs(_)
        Seqs(n) == IF n = 0 THEN <<>>
                   ELSE IF log[n].method = "sendTransaction"
                        THEN Append(Seqs(n - 1), log[n].seq) ELSE Seqs(n - 1)
    IN  Seqs(Len(log))

\* C32: in a call of the Contract the k-th transaction handed to
\* sendTransaction carries the sequence number the source account had when the
\* call began plus k, and the account's sequence number is always that of the
\* last transaction handed over (unchanged while there was none); so within a
\* call and from one call to the next every submission carries the sequence
\* number of the one before plus one.
C32_SubmissionsConsecutive ==
    (op \in SubmittingOps) =>
        /\ \A k \in 1..Len(SubmittedSeqs) : SubmittedSeqs[k] = pre.account.seq + k
        /\ account.seq = pre.account.seq + Len(SubmittedSeqs)

\* C33: a Transaction.Simulate that returned an error (the build failed, the
\* call failed, or a result, an auth entry or the transaction data did not
\* decode) has left the builder's base fee and its operations, with their
\* Soroban data and authorization, as they were before the call.
C33_SimulateErrorWritesNothing ==
    (pc = "idle" /\ op = "Tx.Simulate" /\ ret.st = "err") =>
        /\ t.baseFee = pre.t.baseFee
        /\ t.operations = pre.t.operations

C33_Witness ==
    /\ pc = "idle"
    /\ op = "Tx.Simulate"
    /\ ret.st = "err"
    /\ ret.err = ErrDecode
    /\ log[1].reply.st = "ok"
    /\ pre.t.baseFee = 7
    /\ IsSorobanOp(pre.t.operations[1])
    /\ t = pre.t

\* C34: whenever Deploy hands over its create-contract transaction, the address
\* its preimage implies is the address GetAddress returns for the Contract,
\* which invoke and the instance key use.
C34_DeployAddressIsGetAddress ==
    (op = "Deploy" /\ pc \in {"Simulate.rpc", "Send.rpc"} /\ TxKind(req.tx) = "create") =>
        /\ GetAddress(c, account).st = "ok"
        /\ req.tx.operations[1].target = <<GetAddress(c, account).addr>>

\* C35: the transaction that Simulate or Send builds and hands to the server
\* carries the memo set on the builder with Memo.
C35_MemoCarried ==
    (op \in {"Tx.Simulate", "Tx.Send"} /\ pc \in {"Simulate.rpc", "Send.rpc"}) =>
        req.tx.memo = t.memo

\* C36: after a Transaction.Send that returned the error of a failed
\* sendTransaction call, so that no transaction was accepted, the source
\* account's sequence number is what it was before the call.
C36_FailedSendKeepsSequence ==
    (op = "Tx.Send" /\ pc = "idle" /\ ret.st = "err" /\ ret.err = ErrRpc) =>
        account.seq = pre.account.seq

====
